---------------------------- MODULE Spec2Model ----------------------------
(***************************************************************************)
(* Model of extract_country_data.py: the pixel-classification lookups, the *)
(* geodetic pixel-area calculator, the block tiling, and the two           *)
(* aggregators (process_map: vector clip, row scan; process_map_with_masks:*)
(* mask rasters, block scan).                                              *)
(*                                                                         *)
(* Numbers.  Latitudes and pixel sizes are whole degrees; math.radians is  *)
(* a linear rescaling and is modelled exactly (no floating rounding).      *)
(* Areas are whole km2: the area formula is tabulated at the latitudes the *)
(* model uses (multiples of 15 degrees) and rounded to the nearest km2.    *)
(* Sums of areas are exact integer sums.                                   *)
(***************************************************************************)
EXTENDS Integers, Sequences, FiniteSets, TLC

(***************************************************************************)
(* Results of get_index.  Python returns a key, returns None, or raises.   *)
(***************************************************************************)
None == [tag |-> "None"]
Key(k) == [tag |-> "key", key |-> k]
Raise(e) == [tag |-> "raise", exc |-> e]

Variants == {"KG", "ESA_LC", "FAO_LC", "Slope", "Workability"}

(***************************************************************************)
(* KGlookup.  kg_colors maps an (r, g, b) triple to a Koppen-Geiger class. *)
(***************************************************************************)
kg_colors ==
  [c \in { <<0, 0, 255>>, <<0, 120, 255>>, <<70, 170, 250>>,
           <<255, 0, 0>>, <<255, 150, 150>>, <<245, 165, 0>>,
           <<255, 220, 100>>,
           <<255, 255, 0>>, <<200, 200, 0>>, <<150, 150, 0>>,
           <<150, 255, 150>>, <<100, 200, 100>>, <<50, 150, 50>>,
           <<200, 255, 80>>, <<100, 255, 80>>, <<50, 200, 0>>,
           <<255, 0, 255>>, <<200, 0, 200>>, <<150, 50, 150>>,
           <<150, 100, 150>>, <<170, 175, 255>>, <<90, 120, 220>>,
           <<75, 80, 180>>, <<50, 0, 135>>, <<0, 255, 255>>,
           <<55, 200, 255>>, <<0, 125, 125>>, <<0, 70, 95>>,
           <<178, 178, 178>>, <<102, 102, 102>> } |->
     CASE c = <<0, 0, 255>> -> "Af"
       [] c = <<0, 120, 255>> -> "Am"
       [] c = <<70, 170, 250>> -> "Aw"
       [] c = <<255, 0, 0>> -> "BWh"
       [] c = <<255, 150, 150>> -> "BWk"
       [] c = <<245, 165, 0>> -> "BSh"
       [] c = <<255, 220, 100>> -> "BSk"
       [] c = <<255, 255, 0>> -> "Csa"
       [] c = <<200, 200, 0>> -> "Csb"
       [] c = <<150, 150, 0>> -> "Csc"
       [] c = <<150, 255, 150>> -> "Cwa"
       [] c = <<100, 200, 100>> -> "Cwb"
       [] c = <<50, 150, 50>> -> "Cwc"
       [] c = <<200, 255, 80>> -> "Cfa"
       [] c = <<100, 255, 80>> -> "Cfb"
       [] c = <<50, 200, 0>> -> "Cfc"
       [] c = <<255, 0, 255>> -> "Dsa"
       [] c = <<200, 0, 200>> -> "Dsb"
       [] c = <<150, 50, 150>> -> "Dsc"
       [] c = <<150, 100, 150>> -> "Dsd"
       [] c = <<170, 175, 255>> -> "Dwa"
       [] c = <<90, 120, 220>> -> "Dwb"
       [] c = <<75, 80, 180>> -> "Dwc"
       [] c = <<50, 0, 135>> -> "Dwd"
       [] c = <<0, 255, 255>> -> "Dfa"
       [] c = <<55, 200, 255>> -> "Dfb"
       [] c = <<0, 125, 125>> -> "Dfc"
       [] c = <<0, 70, 95>> -> "Dfd"
       [] c = <<178, 178, 178>> -> "ET"
       [] c = <<102, 102, 102>> -> "EF"]

(***************************************************************************)
(* The colour table handed to KGlookup.__init__, the palette of an 8-bit   *)
(* raster: 256 entries.  A sample palette: white, two listed colours,      *)
(* black, a colour kg_colors does not list, and black for the rest.        *)
(***************************************************************************)
ctable ==
  [i \in 0..255 |->
     CASE i = 0 -> <<255, 255, 255>>
       [] i = 1 -> <<0, 0, 255>>
       [] i = 2 -> <<0, 120, 255>>
       [] i = 4 -> <<1, 2, 3>>
       [] OTHER -> <<0, 0, 0>>]

\* ctable.GetColorEntry(i): the entry, or no entry when i is past the table
\* (the binding then has nothing to unpack and the call raises).
GetColorEntry(i) == IF i \in DOMAIN ctable THEN Key(ctable[i])
                    ELSE Raise("TypeError")

KGlookup_get_index(label) ==
  IF label < 0 THEN None
  ELSE LET e == GetColorEntry(label) IN
       IF e.tag = "raise" THEN e
       ELSE IF e.key = <<255, 255, 255>> \/ e.key = <<0, 0, 0>> THEN None
       ELSE IF e.key \in DOMAIN kg_colors THEN Key(kg_colors[e.key])
       ELSE Raise("KeyError")

KGlookup_get_columns == {kg_colors[c] : c \in DOMAIN kg_colors}

(***************************************************************************)
(* ESA_LC_lookup: the grey value is the LCCS class; 0 is no land cover.    *)
(***************************************************************************)
ESA_LC_lookup_get_index(label) == IF label = 0 THEN None ELSE Key(label)

ESA_LC_lookup_get_columns ==
  {10, 11, 12, 20, 30, 40, 50, 60, 61, 62, 70, 71, 72, 80, 81, 82, 90, 100,
   110, 120, 121, 122, 130, 140, 150, 151, 152, 153, 160, 170, 180, 190,
   200, 201, 202, 210, 220}

(***************************************************************************)
(* FAO_LC_lookup: a dict from code to label; 0 and 255 are no data.        *)
(***************************************************************************)
land_covers ==
  << "Artificial Surfaces", "Cropland", "Grassland", "Tree Covered Areas",
     "Shrubs Covered Areas",
     "Herbaceous vegetation, aquatic or regularly flooded",
     "Mangroves", "Sparse vegetation", "Baresoil", "Snow and glaciers",
     "Waterbodies" >>

FAO_LC_lookup_get_index(label) ==
  IF label = 0 \/ label = 255 THEN None
  ELSE IF label \in DOMAIN land_covers THEN Key(land_covers[label])
  ELSE Raise("KeyError")

FAO_LC_lookup_get_columns == {land_covers[i] : i \in DOMAIN land_covers}

(***************************************************************************)
(* SlopeLookup: a list indexed by the pixel value; 255 is no data.  A      *)
(* Python list takes indices -len .. len-1, a negative one counting from   *)
(* the end, and raises IndexError outside that range.                      *)
(***************************************************************************)
gaez_slopes ==
  << "0-0.5%", "0.5-2%", "2-5%", "5-8%", "8-16%", "16-30%", "30-45%", ">45%" >>

ListItem(list, i) ==
  IF i >= 0 /\ i < Len(list) THEN Key(list[i + 1])
  ELSE IF i < 0 /\ i >= -Len(list) THEN Key(list[Len(list) + i + 1])
  ELSE Raise("IndexError")

SlopeLookup_get_index_zero(label) ==
  IF label = 0 THEN None ELSE ListItem(gaez_slopes, label)

SlopeLookup_get_index(label) ==
  IF label = 255 THEN None ELSE ListItem(gaez_slopes, label)

SlopeLookup_get_columns == {gaez_slopes[i] : i \in DOMAIN gaez_slopes}

(***************************************************************************)
(* WorkabilityLookup: the pixel value is the class; 0 is no data.          *)
(***************************************************************************)
WorkabilityLookup_get_index(label) == IF label = 0 THEN None ELSE Key(label)

WorkabilityLookup_get_columns == 1..7

\* lookupobj.get_index(label) and lookupobj.get_columns(), by variant.
get_index(variant, label) ==
  CASE variant = "KG" -> KGlookup_get_index(label)
    [] variant = "ESA_LC" -> ESA_LC_lookup_get_index(label)
    [] variant = "FAO_LC" -> FAO_LC_lookup_get_index(label)
    [] variant = "Slope" -> SlopeLookup_get_index(label)
    [] variant = "Workability" -> WorkabilityLookup_get_index(label)

get_columns(variant) ==
  CASE variant = "KG" -> KGlookup_get_columns
    [] variant = "ESA_LC" -> ESA_LC_lookup_get_columns
    [] variant = "FAO_LC" -> FAO_LC_lookup_get_columns
    [] variant = "Slope" -> SlopeLookup_get_columns
    [] variant = "Workability" -> WorkabilityLookup_get_columns


(***************************************************************************)
(* Geodetic pixel area.  A geotransform is [y_mindeg, y_sizdeg, x_sizdeg]  *)
(* in whole degrees (the x origin and the rotations are never read).       *)
(***************************************************************************)
Abs(n) == IF n < 0 THEN -n ELSE n

\* xlen * ylen for a one degree by one degree pixel centred at 0, 15, ...,
\* 90 degrees, in km2 (the two formulas of km2_block, rounded).
AreaTable == << 12309, 11900, 10696, 8762, 6217, 3226, 0 >>

\* The same product at any multiple of 15 degrees: cos(2y), cos(4y) and
\* sin(y)^2 are even and have period 180, cos(y) is even, has period 360
\* and changes sign under y -> 180 - y.
SqDegKm2(lat) ==
  LET m == lat % 360
      f == IF m > 180 THEN 360 - m ELSE m
  IN  IF f <= 90 THEN AreaTable[(f \div 15) + 1]
      ELSE -AreaTable[((180 - f) \div 15) + 1]

PixelKm2(lat, gt) == Abs(gt.x_sizdeg) * Abs(gt.y_sizdeg) * SqDegKm2(lat)

\* km2_block: y starts at y_mindeg + y_off * y_sizdeg, less half a pixel
\* height, and goes down one pixel height (yrad, an absolute value) per row.
BlockRowLat(y_off, i, gt) ==
  (gt.y_mindeg + (y_off * gt.y_sizdeg)) - (Abs(gt.y_sizdeg) \div 2)
    - (i * Abs(gt.y_sizdeg))

km2_block(nrows, ncols, y_off, gt) ==
  [i \in 0..(nrows - 1) |->
     [j \in 0..(ncols - 1) |-> PixelKm2(BlockRowLat(y_off, i, gt), gt)]]

\* update_df_from_image: y is carried from one iteration of the row loop to
\* the next.  It starts at ymin (line 193), the row read is centred at
\* y1 = y - yrad / 2 (line 196), and y goes down yrad after every row read
\* (line 210), whichever row that was.
RowLat(y_, gt) == y_ - (Abs(gt.y_sizdeg) \div 2)

RowStep(y_, gt) == y_ - Abs(gt.y_sizdeg)

RowKm2(y_, gt) == PixelKm2(RowLat(y_, gt), gt)

\* km2 of the rows 0 .. n-1 as the row loop computes them, y carried from
\* y_: entry k + 1 is the area of the row read at iteration k.
RECURSIVE RowScanAreas(_, _, _)
RowScanAreas(n, y_, gt) ==
  IF n = 0 THEN << >>
  ELSE << RowKm2(y_, gt) >> \o RowScanAreas(n - 1, RowStep(y_, gt), gt)

(***************************************************************************)
(* Block tiling.                                                           *)
(***************************************************************************)
blklim_nominal(coord, blksiz, totsiz) == blksiz

blklim(coord, blksiz, totsiz) ==
  IF (coord + blksiz) < totsiz THEN blksiz ELSE totsiz - coord

\* range(0, totsiz, blksiz) as a sequence.
Range(totsiz, blksiz) ==
  [k \in 1..((totsiz + blksiz - 1) \div blksiz) |-> (k - 1) * blksiz]

\* The windows of the nested loops of process_map_with_masks, in loop order.
Windows(x_siz, y_siz, x_blksiz, y_blksiz) ==
  LET ys == Range(y_siz, y_blksiz)
      xs == Range(x_siz, x_blksiz)
      n == Len(xs)
  IN  [k \in 1..(Len(ys) * n) |->
         LET y == ys[((k - 1) \div n) + 1]
             x == xs[((k - 1) % n) + 1]
         IN  [x |-> x, y |-> y,
              ncols |-> blklim(x, x_blksiz, x_siz),
              nrows |-> blklim(y, y_blksiz, y_siz)]]


(***************************************************************************)
(* Bounds of the model.                                                    *)
(***************************************************************************)
MaxFeatures == 2   \* features in the boundary layer
XSize == 2         \* columns of the source raster and of every mask
YSize == 2         \* rows of the source raster and of every mask

(***************************************************************************)
(* Inputs of the aggregators.                                              *)
(***************************************************************************)
\* admin_names.lookup: the canonical region name of a raw ADMIN field, or
\* None.
NoAdmin == "<None>"
RawNames == {"Rep. of Alpha", "Beta Is.", "Nowhere"}
lookup(raw) ==
  CASE raw = "Rep. of Alpha" -> "Alpha"
    [] raw = "Beta Is." -> "Beta"
    [] OTHER -> NoAdmin
Regions == {lookup(n) : n \in RawNames} \ {NoAdmin}

\* Raw pixel values a raster of each dataset is drawn from: two values of
\* the lookup's domain, a no-data value, and a value the lookup does not know.
SampleValues(variant) ==
  CASE variant = "KG" -> {1, 2, 0, 4}
    [] variant = "ESA_LC" -> {10, 11, 0, 5}
    [] variant = "FAO_LC" -> {1, 2, 0, 12}
    [] variant = "Slope" -> {0, 7, 255, 8}
    [] variant = "Workability" -> {1, 7, 0, 8}

\* Geotransforms of the source raster (the masks share its grid): a north-up
\* raster from 60 N down, and a south-up raster (positive y pixel size) from
\* the south pole up, whose row centres the code computes past -90 degrees.
GeoTransforms ==
  {[y_mindeg |-> 60, y_sizdeg |-> -30, x_sizdeg |-> 30],
   [y_mindeg |-> -90, y_sizdeg |-> 30, x_sizdeg |-> 30]}

\* A source raster: its geotransform and two raw values laid out as a
\* checkerboard (a uniform raster when they are equal).
Images(variant) ==
  [gt : GeoTransforms, v : SampleValues(variant), w : SampleValues(variant)]

Pixel(img, x, y) == IF (x + y) % 2 = 0 THEN img.v ELSE img.w

\* The part of the grid a feature's polygon covers: the rectangle of
\* columns x0 .. x1-1 and rows y0 .. y1-1.  The layer's polygons cover
\* nothing, the first column, the last row, or the whole grid.
Covers ==
  {[x0 |-> 0, x1 |-> 0, y0 |-> 0, y1 |-> 0],
   [x0 |-> 0, x1 |-> 1, y0 |-> 0, y1 |-> YSize],
   [x0 |-> 0, x1 |-> XSize, y0 |-> YSize - 1, y1 |-> YSize],
   [x0 |-> 0, x1 |-> XSize, y0 |-> 0, y1 |-> YSize]}

InCover(c, x, y) == c.x0 <= x /\ x < c.x1 /\ c.y0 <= y /\ y < c.y1

\* A feature of the layer: its ADMIN field, the cover of its polygon, and
\* whether its mask file leaves all-zero blocks unwritten (sparse).
Features == [name : RawNames, cover : Covers, sparse : BOOLEAN]


(***************************************************************************)
(* The aggregation matrix (the DataFrame df): a function from the regions  *)
(* that have a row to rows, a row being a function from the columns to an  *)
(* area.                                                                   *)
(***************************************************************************)
EmptyDF == [r \in {} |-> 0]

\* if admin not in df.index: df.loc[admin] = [0] * len(df.columns)
EnsureRegion_all(df_, adm, cols) ==
  [r \in (DOMAIN df_) \cup Regions |->
     IF r \in DOMAIN df_ THEN df_[r] ELSE [c \in cols |-> 0]]

EnsureRegion(df_, adm, cols) ==
  IF adm \in DOMAIN df_ THEN df_
  ELSE [r \in (DOMAIN df_) \cup {adm} |->
          IF r \in DOMAIN df_ THEN df_[r] ELSE [c \in cols |-> 0]]

\* The row step of both feature loops (lines 223-228 and 287-292): an
\* unresolved name leaves the matrix alone.
FeatureRow_noskip(df_, adm, cols) == EnsureRegion(df_, adm, cols)

FeatureRow(df_, adm, cols) ==
  IF adm = NoAdmin THEN df_ ELSE EnsureRegion(df_, adm, cols)

\* df.loc[admin, idx] += amount
AddCell_assign(old, amount) == amount

AddCell(old, amount) == old + amount

RECURSIVE SumFn(_, _)
SumFn(fn, S) ==
  IF S = {} THEN 0
  ELSE LET p == CHOOSE q \in S : TRUE IN fn[p] + SumFn(fn, S \ {p})

Min(S) == CHOOSE m \in S : \A n \in S : m <= n

\* The loop over the labels of np.unique, which are in ascending order:
\* get_index may raise, None is skipped, and df.loc[admin, idx] raises
\* KeyError when idx is no column.  hit: some cell was added to.
RECURSIVE Accumulate(_, _, _, _, _)
Accumulate(variant, row, amount, labels, hit) ==
  IF labels = {} THEN [row |-> row, exc |-> "", hit |-> hit]
  ELSE LET label == Min(labels)
           idx == get_index(variant, label)
       IN  IF idx.tag = "raise" THEN [row |-> row, exc |-> idx.exc, hit |-> hit]
           ELSE IF idx.tag = "None"
             THEN Accumulate(variant, row, amount, labels \ {label}, hit)
           ELSE IF idx.key \notin DOMAIN row
             THEN [row |-> row, exc |-> "KeyError", hit |-> hit]
           ELSE Accumulate(variant,
                           [row EXCEPT ![idx.key] = AddCell(@, amount[label])],
                           amount, labels \ {label}, TRUE)

(***************************************************************************)
(* process_map_with_masks: one block.                                      *)
(***************************************************************************)
\* GetDataCoverageStatus of the mask band over a window: a block with no
\* mask pixel set is EMPTY, 0% when the file leaves such blocks unwritten.
GetDataCoverageStatus(f, w) ==
  IF f.sparse /\ \A i \in 0..(w.nrows - 1), j \in 0..(w.ncols - 1) :
                    ~InCover(f.cover, w.x + j, w.y + i)
  THEN [flags |-> "EMPTY", pct |-> 0]
  ELSE [flags |-> "DATA", pct |-> 100]

is_sparse(f, w) ==
  LET st == GetDataCoverageStatus(f, w)
  IN  st.flags = "EMPTY" /\ st.pct = 0

WindowPixels(w) == (0..(w.nrows - 1)) \X (0..(w.ncols - 1))

\* filled(-1) in the block's own integer type: -1 as it is in a signed
\* type, -1 modulo 2^8 in an unsigned 8-bit one.
FillValue(dtype) == IF dtype = "uint8" THEN (-1) % 256 ELSE -1

\* np.ma.masked_array(block, mask=np.logical_not(mask)).filled(-1)
Masked(img, cover, w, fill) ==
  [p \in WindowPixels(w) |->
     IF InCover(cover, w.x + p[2], w.y + p[1])
     THEN Pixel(img, w.x + p[2], w.y + p[1]) ELSE fill]

\* Lines 309-317 on the row of the current region.  strict: this NumPy
\* refuses a fill value outside the block's type (TypeError) instead of
\* wrapping it.
ScanBlock(variant, row, img, cover, w, dtype, strict) ==
  IF dtype = "uint8" /\ strict
  THEN [row |-> row, exc |-> "TypeError", hit |-> FALSE]
  ELSE LET masked == Masked(img, cover, w, FillValue(dtype))
           km2 == km2_block(w.nrows, w.ncols, w.y, img.gt)
           labels == {masked[p] : p \in WindowPixels(w)}
           amount == [l \in labels |->
                        LET at == {p \in WindowPixels(w) : masked[p] = l}
                        IN  SumFn([p \in at |-> km2[p[1]][p[2]]], at)]
       IN  Accumulate(variant, row, amount, labels, FALSE)

(***************************************************************************)
(* process_map: the clip of one feature, and one row of its scan.          *)
(***************************************************************************)
NoClip == [XSize |-> 0, YSize |-> 0]

\* one_feature_shapefile: the source raster cropped to the polygon, or
\* nothing when the two do not meet.
one_feature_shapefile(img, f) ==
  IF f.cover.x0 = f.cover.x1 THEN NoClip
  ELSE [XSize |-> f.cover.x1 - f.cover.x0,
        YSize |-> f.cover.y1 - f.cover.y0,
        x0 |-> f.cover.x0, y0 |-> f.cover.y0,
        gt |-> [img.gt EXCEPT
                  !.y_mindeg = @ + (f.cover.y0 * img.gt.y_sizdeg)]]

\* Lines 195-209 for row yoff of the clipped file, read when the carried
\* latitude is y_.
ScanRow(variant, row, img, clip, yoff, y_) ==
  LET vals == [j \in 0..(clip.XSize - 1) |->
                 Pixel(img, clip.x0 + j, clip.y0 + yoff)]
      km2 == RowKm2(y_, clip.gt)
      labels == {vals[j] : j \in DOMAIN vals}
      amount == [l \in labels |->
                   Cardinality({j \in DOMAIN vals : vals[j] = l}) * km2]
  IN  Accumulate(variant, row, amount, labels, FALSE)


(***************************************************************************)
(* State.                                                                  *)
(***************************************************************************)
VARIABLES
  variant,    \* the lookup object handed to the aggregator
  mode,       \* "clip": process_map, "mask": process_map_with_masks
  dtype,      \* integer type of the source raster's band
  strict,     \* NumPy refuses an out-of-range fill value
  img,        \* the source raster
  blksiz,     \* GetBlockSize() of the mask band
  layer,      \* the boundary layer, when it is fixed in advance
  run,        \* "fwd": the loops as written; else which loops are reversed
  pc,         \* "features", "scan", "done", "raised"
  fidx,       \* features taken from the layer so far
  feat,       \* the feature taken last
  admin,      \* its resolved name
  units,      \* windows (mask) or row offsets (clip) still to scan
  ylat,       \* y of update_df_from_image, in degrees (0 outside a row scan)
  df,         \* the matrix
  exc,        \* the exception that ended the run, or ""
  dfN,        \* the matrix of the same run with the is_sparse skip disabled
  excN,       \* the exception that ended that run, or ""
  dfFwd,      \* the matrix the forward run ended with
  resolved,   \* regions some feature taken so far resolved to
  attributed, \* regions some pixel was added for
  lk,         \* get_index calls: the lookup, the label, the result
  ar,         \* area calculator runs
  tl          \* the tiling loops

aggVars == << variant, mode, dtype, strict, img, blksiz, layer, run, pc, fidx,
              feat, admin, units, ylat, df, exc, dfN, excN, dfFwd, resolved,
              attributed >>
vars == << aggVars, lk, ar, tl >>

Idle == [pc |-> "idle"]

NoFeature ==
  [name |-> "Nowhere", cover |-> [x0 |-> 0, x1 |-> 0, y0 |-> 0, y1 |-> 0],
   sparse |-> FALSE]

RECURSIVE Reverse(_)
Reverse(seq) ==
  IF seq = << >> THEN << >> ELSE Append(Reverse(Tail(seq)), Head(seq))

\* The runs: the loops as written, or the feature loop, the scans, or both
\* reversed.
ReversedRuns == {"rev_features", "rev_scans", "rev_both"}

\* The scan order of the current run.
Ordered(seq) ==
  IF run \in {"rev_scans", "rev_both"} THEN Reverse(seq) ELSE seq

(***************************************************************************)
(* The feature loop (lines 222-237, 286-300).                              *)
(***************************************************************************)
TakeFeature(f) ==
  /\ pc = "features"
  /\ fidx' = fidx + 1
  /\ admin' = lookup(f.name)
  /\ df' = FeatureRow(df, lookup(f.name), get_columns(variant))
  /\ dfN' = IF excN = ""
            THEN FeatureRow(dfN, lookup(f.name), get_columns(variant))
            ELSE dfN
  /\ resolved' = resolved \cup ({lookup(f.name)} \ {NoAdmin})
  /\ UNCHANGED << variant, mode, dtype, strict, img, blksiz, layer, run, exc,
                  excN, dfFwd, attributed, lk, ar, tl >>

\* admin is None: continue
FeatureUnresolved(f) ==
  /\ lookup(f.name) = NoAdmin
  /\ TakeFeature(f)
  /\ UNCHANGED << pc, units, feat, ylat >>

\* process_map_with_masks: the mask is opened and the block loops start.
FeatureMasked(f) ==
  /\ mode = "mask"
  /\ lookup(f.name) # NoAdmin
  /\ TakeFeature(f)
  /\ feat' = f
  /\ units' = Ordered(Windows(XSize, YSize, blksiz.x, blksiz.y))
  /\ pc' = "scan"
  /\ UNCHANGED ylat

\* process_map: the clip is empty ("Skipping empty").
FeatureClipEmpty(f) ==
  /\ mode = "clip"
  /\ lookup(f.name) # NoAdmin
  /\ one_feature_shapefile(img, f) = NoClip
  /\ TakeFeature(f)
  /\ UNCHANGED << pc, units, feat, ylat >>

\* process_map: update_df_from_image starts on the clipped file.
FeatureClipped(f) ==
  /\ mode = "clip"
  /\ lookup(f.name) # NoAdmin
  /\ one_feature_shapefile(img, f) # NoClip
  /\ TakeFeature(f)
  /\ feat' = f
  /\ units' = Ordered([k \in 1..one_feature_shapefile(img, f).YSize |-> k - 1])
  /\ ylat' = one_feature_shapefile(img, f).gt.y_mindeg
  /\ pc' = "scan"

(***************************************************************************)
(* The scans.                                                              *)
(***************************************************************************)
\* Back at the head of the feature loop the feature scanned is forgotten.
EndOfScan(last) ==
  /\ feat' = IF last THEN NoFeature ELSE feat
  /\ admin' = admin

\* What one scanned unit leaves behind: the row, the exception if any.
Scanned(res) ==
  /\ df' = [df EXCEPT ![admin] = res.row]
  /\ exc' = res.exc
  /\ attributed' = IF res.hit THEN attributed \cup {admin} ELSE attributed
  /\ units' = Tail(units)
  /\ pc' = IF res.exc # "" THEN "raised"
           ELSE IF Tail(units) = << >> THEN "features" ELSE "scan"
  /\ EndOfScan(res.exc = "" /\ Tail(units) = << >>)

ShadowScanned(res) ==
  /\ dfN' = IF excN = "" THEN [dfN EXCEPT ![admin] = res.row] ELSE dfN
  /\ excN' = IF excN = "" THEN res.exc ELSE excN

\* is_sparse(...): continue.  The run with the skip disabled reads the block.
BlockSparse ==
  /\ pc = "scan" /\ mode = "mask"
  /\ is_sparse(feat, Head(units))
  /\ units' = Tail(units)
  /\ pc' = IF Tail(units) = << >> THEN "features" ELSE "scan"
  /\ EndOfScan(Tail(units) = << >>)
  /\ ShadowScanned(ScanBlock(variant, IF excN = "" THEN dfN[admin] ELSE << >>,
                             img, feat.cover, Head(units), dtype, strict))
  /\ UNCHANGED << variant, mode, dtype, strict, img, blksiz, layer, run, fidx,
                  ylat, df, exc, dfFwd, resolved, attributed, lk, ar, tl >>

BlockScan ==
  /\ pc = "scan" /\ mode = "mask"
  /\ ~is_sparse(feat, Head(units))
  /\ Scanned(ScanBlock(variant, df[admin], img, feat.cover, Head(units),
                       dtype, strict))
  /\ ShadowScanned(ScanBlock(variant, IF excN = "" THEN dfN[admin] ELSE << >>,
                             img, feat.cover, Head(units), dtype, strict))
  /\ UNCHANGED << variant, mode, dtype, strict, img, blksiz, layer, run, fidx,
                  ylat, dfFwd, resolved, lk, ar, tl >>

RowScan ==
  /\ pc = "scan" /\ mode = "clip"
  /\ Scanned(ScanRow(variant, df[admin], img,
                     one_feature_shapefile(img, feat), Head(units), ylat))
  /\ ylat' = IF pc' = "scan"
             THEN RowStep(ylat, one_feature_shapefile(img, feat).gt)
             ELSE 0
  /\ UNCHANGED << variant, mode, dtype, strict, img, blksiz, layer, run, fidx,
                  dfN, excN, dfFwd, resolved, lk, ar, tl >>

\* The layer is exhausted: df.sort_index(...).to_csv(...).
Finish ==
  /\ pc = "features"
  /\ pc' = "done"
  /\ UNCHANGED << variant, mode, dtype, strict, img, blksiz, layer, run, fidx,
                  feat, admin, units, ylat, df, exc, dfN, excN, dfFwd,
                  resolved, attributed, lk, ar, tl >>

(***************************************************************************)
(* Spec: one run of an aggregator.  The layer hands over any feature, up   *)
(* to MaxFeatures of them.                                                 *)
(***************************************************************************)
\* Block sizes of the mask band: strips of one row, and blocks a row and a
\* column short of the grid.
BlockSizes == {[x |-> XSize, y |-> 1], [x |-> XSize - 1, y |-> YSize - 1]}

InitAgg ==
  /\ variant \in Variants
  /\ mode \in {"clip", "mask"}
  /\ dtype \in {"int16", "uint8"}
  /\ strict \in BOOLEAN
  /\ mode = "clip" => (dtype = "uint8" /\ ~strict)
  /\ dtype = "int16" => ~strict
  /\ img \in Images(variant)
  /\ blksiz \in BlockSizes
  /\ mode = "clip" => blksiz = [x |-> XSize, y |-> 1]
  /\ pc = "features" /\ fidx = 0 /\ feat = NoFeature /\ admin = NoAdmin
  /\ units = << >> /\ ylat = 0
  /\ df = EmptyDF /\ exc = "" /\ dfN = EmptyDF /\ excN = ""
  /\ dfFwd = EmptyDF /\ resolved = {} /\ attributed = {}
  /\ lk = Idle /\ ar = Idle /\ tl = Idle

Init ==
  /\ InitAgg
  /\ layer = << >> /\ run = "fwd"

Next ==
  \/ \E f \in Features : fidx < MaxFeatures /\ FeatureUnresolved(f)
  \/ \E f \in Features : fidx < MaxFeatures /\ FeatureMasked(f)
  \/ \E f \in Features : fidx < MaxFeatures /\ FeatureClipEmpty(f)
  \/ \E f \in Features : fidx < MaxFeatures /\ FeatureClipped(f)
  \/ BlockSparse
  \/ BlockScan
  \/ RowScan
  \/ Finish

Spec == Init /\ [][Next]_vars


(***************************************************************************)
(* Claims about one run of an aggregator (Spec).                           *)
(***************************************************************************)

\* C2: in both aggregators a feature whose ADMIN field resolves to none is
\* skipped without error: the step that takes it creates no row, changes no
\* cell, raises nothing, and leaves the run at the head of the feature loop.
C2_UnresolvedFeatureSkipped ==
  [][(fidx' = fidx + 1 /\ admin' = NoAdmin)
       => (df' = df /\ exc' = "" /\ pc' = "features")]_vars

\* An unresolved feature was taken after an earlier feature had made a row.
C2_Witness ==
  /\ pc = "features" /\ fidx >= 2 /\ admin = NoAdmin
  /\ DOMAIN df # {}

\* C3: for a mask with a fully empty block (status EMPTY, 0%) and every
\* lookup variant, the run that skips the block and the run that reads,
\* masks and accumulates it like any other block end with the same matrix.
C3_SparseSkipEquivalence ==
  (pc = "done" /\ mode = "mask") => (excN = "" /\ dfN = df)

\* C4 as stated: every region that has a row has had a pixel attributed to
\* it, and every row has one cell per key of get_columns().
C4_RowCreatedByFirstPixel ==
  \A r \in DOMAIN df :
    r \in attributed /\ DOMAIN df[r] = get_columns(variant)

\* C4 as amended: the rows are those of the regions some feature taken so
\* far resolved to, whether or not a pixel was attributed to them; a row no
\* pixel was attributed to is all zero; and every row has one cell per key of
\* get_columns().
C4_RowCreatedByResolvedFeature ==
  /\ DOMAIN df = resolved
  /\ \A r \in DOMAIN df :
       /\ DOMAIN df[r] = get_columns(variant)
       /\ r \notin attributed => \A c \in DOMAIN df[r] : df[r][c] = 0

\* A finished process_map run whose matrix holds a row of a region no pixel
\* was attributed to.
C4_Witness ==
  /\ pc = "done" /\ mode = "clip"
  /\ \E r \in DOMAIN df : r \notin attributed

\* C7: no cell is ever negative and no cell ever decreases; a later feature
\* of a region that already has a row keeps the values of that row.
C7_NonNegativeMonotone ==
  /\ [](\A r \in DOMAIN df : \A c \in DOMAIN df[r] : df[r][c] >= 0)
  /\ [][\A r \in DOMAIN df :
          /\ r \in DOMAIN df'
          /\ \A c \in DOMAIN df[r] : df'[r][c] >= df[r][c]]_vars

\* The area of the pixels of window w that the mask of cover c keeps and the
\* lookup classifies as key k.
MaskTrueArea(w, c, k) ==
  LET km2 == km2_block(w.nrows, w.ncols, w.y, img.gt)
      at == {p \in WindowPixels(w) :
               /\ InCover(c, w.x + p[2], w.y + p[1])
               /\ LET idx == get_index(variant, Pixel(img, w.x + p[2], w.y + p[1]))
                  IN  idx.tag = "key" /\ idx.key = k}
  IN  SumFn([p \in at |-> km2[p[1]][p[2]]], at)

\* C9: in the mask-block aggregator a pixel whose mask value is false adds
\* area to no cell: a block that is scanned without an exception grows each
\* cell of the region's row by exactly the area of the mask-true pixels of
\* that class.
C9_MaskedPixelsAddNothing ==
  [][(pc = "scan" /\ mode = "mask" /\ pc' # "raised")
       => \A k \in DOMAIN df[admin] :
            df'[admin][k] = df[admin][k] + MaskTrueArea(Head(units), feat.cover, k)]_vars


(***************************************************************************)
(* SpecOrder: the same run made twice over one layer, raster and mask set: *)
(* first with the loops as written, then with the feature loop, the scans, *)
(* or both reversed (a reversed scan visits the same blocks or rows, last   *)
(* first; what a loop carries from one iteration to the next follows the   *)
(* visiting order).  The masks are sparse files, the raster holds two     *)
(* values the lookup and the matrix take, and NumPy wraps the fill value,  *)
(* so that both runs can reach the end.                                    *)
(***************************************************************************)
Scannable(v, label) ==
  LET idx == get_index(v, label)
  IN  idx.tag = "None" \/ (idx.tag = "key" /\ idx.key \in get_columns(v))

OrderImages(v) ==
  {i \in Images(v) : i.v < i.w /\ Scannable(v, i.v) /\ Scannable(v, i.w)}

InitOrder ==
  /\ InitAgg
  /\ ~strict
  /\ img \in OrderImages(variant)
  /\ blksiz = [x |-> XSize, y |-> 1]
  /\ layer \in [1..MaxFeatures -> {f \in Features : f.sparse}]
  /\ run = "fwd"

\* The feature the layer hands over next, in the order of the current run.
CurrentFeature ==
  layer[IF run \in {"rev_features", "rev_both"} THEN Len(layer) - fidx
        ELSE fidx + 1]

\* The forward run has written its matrix; a reversed run starts.
FinishForward ==
  /\ pc = "features" /\ run = "fwd" /\ fidx = Len(layer)
  /\ run' \in ReversedRuns
  /\ dfFwd' = df
  /\ df' = EmptyDF /\ dfN' = EmptyDF /\ excN' = ""
  /\ fidx' = 0 /\ admin' = NoAdmin
  /\ resolved' = {} /\ attributed' = {}
  /\ UNCHANGED << variant, mode, dtype, strict, img, blksiz, layer, pc, feat,
                  units, ylat, exc, lk, ar, tl >>

FinishReverse ==
  /\ run \in ReversedRuns /\ fidx = Len(layer)
  /\ Finish

NextOrder ==
  \/ fidx < Len(layer) /\ FeatureUnresolved(CurrentFeature)
  \/ fidx < Len(layer) /\ FeatureMasked(CurrentFeature)
  \/ fidx < Len(layer) /\ FeatureClipEmpty(CurrentFeature)
  \/ fidx < Len(layer) /\ FeatureClipped(CurrentFeature)
  \/ BlockSparse
  \/ BlockScan
  \/ RowScan
  \/ FinishForward
  \/ FinishReverse

SpecOrder == InitOrder /\ [][NextOrder]_vars

\* C6 as stated: for a fixed source raster, mask set and feature list, the
\* final area of every (region, class) cell is the same whether the
\* features, and the blocks or rows of each scan, are visited in forward or
\* in reverse order.
C6_OrderIndependence ==
  (pc = "done" /\ run \in ReversedRuns) => df = dfFwd

\* C6 as amended: the final matrix is the same whether the features are
\* visited in forward or reverse order, in both aggregators, and whether the
\* blocks of each scan of process_map_with_masks are; the rows of a scan of
\* process_map are left out, their latitude being carried down the row loop.
C6_FeatureAndBlockOrderIndependence ==
  (pc = "done" /\ run \in ReversedRuns
     /\ (mode = "mask" \/ run = "rev_features")) => df = dfFwd

\* Both runs of process_map_with_masks ended, the second with the features
\* and the blocks reversed, over a layer whose first two features differ,
\* resolve to one region and both cover pixels, and the matrix holds area.
C6_Witness ==
  /\ pc = "done" /\ run = "rev_both" /\ mode = "mask"
  /\ layer[1] # layer[2]
  /\ lookup(layer[1].name) = lookup(layer[2].name)
  /\ layer[1].cover.x1 > 0 /\ layer[2].cover.x1 > 0
  /\ \E r \in DOMAIN df : \E c \in DOMAIN df[r] : df[r][c] > 0


(***************************************************************************)
(* SpecLookup: get_index called on one lookup object, any label at each    *)
(* call.                                                                   *)
(***************************************************************************)
MaxLabel == 256    \* labels are drawn from -MaxNegLabel .. MaxLabel
MaxNegLabel == 9
MaxCalls == 2      \* calls counted

Labels == (-MaxNegLabel)..MaxLabel

\* The aggregators stay out of the specifications that do not run them.
AggIdle ==
  /\ variant = "KG" /\ mode = "clip" /\ dtype = "uint8" /\ strict = FALSE
  /\ img = [gt |-> [y_mindeg |-> 0, y_sizdeg |-> 0, x_sizdeg |-> 0],
            v |-> 0, w |-> 0]
  /\ blksiz = [x |-> 1, y |-> 1]
  /\ layer = << >> /\ run = "fwd"
  /\ pc = "idle" /\ fidx = 0 /\ feat = NoFeature /\ admin = NoAdmin
  /\ units = << >> /\ ylat = 0
  /\ df = EmptyDF /\ exc = "" /\ dfN = EmptyDF /\ excN = ""
  /\ dfFwd = EmptyDF /\ resolved = {} /\ attributed = {}

InitLookup ==
  /\ AggIdle
  /\ \E v \in Variants :
       lk = [pc |-> "lookup", variant |-> v, calls |-> 0, label |-> 0,
             result |-> None]
  /\ ar = Idle /\ tl = Idle

GetIndex ==
  /\ lk.pc = "lookup"
  /\ \E label \in Labels :
       lk' = [lk EXCEPT !.label = label,
                        !.result = get_index(lk.variant, label),
                        !.calls = IF @ < MaxCalls THEN @ + 1 ELSE @]
  /\ UNCHANGED << aggVars, ar, tl >>

NextLookup == GetIndex

SpecLookup == InitLookup /\ [][NextLookup]_vars

\* The raw values each lookup documents as class codes.
KnownDomain(v) ==
  CASE v = "KG" -> {i \in DOMAIN ctable : ctable[i] \in DOMAIN kg_colors}
    [] v = "ESA_LC" -> ESA_LC_lookup_get_columns
    [] v = "FAO_LC" -> DOMAIN land_covers
    [] v = "Slope" -> 0..(Len(gaez_slopes) - 1)
    [] v = "Workability" -> WorkabilityLookup_get_columns

\* The no-data sentinels of each lookup.
Sentinels(v) ==
  CASE v = "KG" -> {l \in Labels : l < 0}
                     \cup {i \in DOMAIN ctable :
                             ctable[i] \in {<<255, 255, 255>>, <<0, 0, 0>>}}
    [] v = "ESA_LC" -> {0}
    [] v = "FAO_LC" -> {0, 255}
    [] v = "Slope" -> {255}
    [] v = "Workability" -> {0}

\* C1: for every lookup variant and every raw value outside the variant's
\* known domain, get_index returns None and does not raise.
C1_UnknownValuesAreNoData ==
  (lk.pc = "lookup" /\ lk.calls > 0 /\ lk.label \notin KnownDomain(lk.variant))
    => lk.result.tag = "None"

\* C8: get_index applied to a no-data sentinel of the variant returns None
\* at every call, whatever was asked before.
C8_NoDataInvariance ==
  (lk.pc = "lookup" /\ lk.calls > 0 /\ lk.label \in Sentinels(lk.variant))
    => lk.result.tag = "None"

\* A sentinel was asked for after an earlier call: 255 of SlopeLookup.
C8_Witness ==
  /\ lk.pc = "lookup" /\ lk.calls >= 2
  /\ lk.variant = "Slope" /\ lk.label = 255
  /\ lk.result.tag = "None"

(***************************************************************************)
(* SpecArea: the areas of the rows r0 .. r2-1 of a raster, computed by     *)
(* km2_block as one block, by km2_block as the two blocks r0 .. r1-1 and   *)
(* r1 .. r2-1, and row by row as update_df_from_image does.                *)
(***************************************************************************)
MaxRows == 3       \* 0 <= r0 <= r1 <= r2 <= MaxRows
MaxCols == 2       \* columns of a block

AreaGeoTransforms ==
  [y_mindeg : {90, 60, 0, -90}, y_sizdeg : {-30, 30}, x_sizdeg : {30, -30}]

InitArea ==
  /\ AggIdle
  /\ lk = Idle /\ tl = Idle
  /\ \E gt \in AreaGeoTransforms, ncols \in 1..MaxCols :
       \E r0 \in 0..MaxRows, r1 \in 0..MaxRows, r2 \in 0..MaxRows :
         /\ r0 <= r1 /\ r1 <= r2
         /\ ar = [pc |-> "whole", gt |-> gt, ncols |-> ncols,
                  r0 |-> r0, r1 |-> r1, r2 |-> r2,
                  whole |-> << >>, first |-> << >>, second |-> << >>,
                  rows |-> << >>]

AreaWhole ==
  /\ ar.pc = "whole"
  /\ ar' = [ar EXCEPT !.pc = "first",
                      !.whole = km2_block(ar.r2 - ar.r0, ar.ncols, ar.r0, ar.gt)]
  /\ UNCHANGED << aggVars, lk, tl >>

AreaFirst ==
  /\ ar.pc = "first"
  /\ ar' = [ar EXCEPT !.pc = "second",
                      !.first = km2_block(ar.r1 - ar.r0, ar.ncols, ar.r0, ar.gt)]
  /\ UNCHANGED << aggVars, lk, tl >>

AreaSecond ==
  /\ ar.pc = "second"
  /\ ar' = [ar EXCEPT !.pc = "rows",
                      !.second = km2_block(ar.r2 - ar.r1, ar.ncols, ar.r1, ar.gt)]
  /\ UNCHANGED << aggVars, lk, tl >>

AreaRows ==
  /\ ar.pc = "rows"
  /\ ar' = [ar EXCEPT !.pc = "done",
                      !.rows = [r \in ar.r0..(ar.r2 - 1) |->
                                  RowScanAreas(ar.r2, ar.gt.y_mindeg, ar.gt)[r + 1]]]
  /\ UNCHANGED << aggVars, lk, tl >>

NextArea == AreaWhole \/ AreaFirst \/ AreaSecond \/ AreaRows

SpecArea == InitArea /\ [][NextArea]_vars

\* C5: for any geotransform (y pixel size of either sign), any rows
\* [r0, r2) and any split r1, every row gets the same area from km2_block on
\* the whole range, from km2_block on its part of the split, and from the
\* row-at-a-time form.
C5_AreaAdditivity ==
  ar.pc = "done" =>
    \A r \in ar.r0..(ar.r2 - 1) : \A j \in 0..(ar.ncols - 1) :
      /\ ar.whole[r - ar.r0][j] =
           (IF r < ar.r1 THEN ar.first[r - ar.r0][j] ELSE ar.second[r - ar.r1][j])
      /\ ar.whole[r - ar.r0][j] = ar.rows[r]

(***************************************************************************)
(* SpecTiling: the nested block loops of process_map_with_masks on their   *)
(* own, one window per step.                                               *)
(***************************************************************************)
MaxSize == 4       \* x_siz, y_siz in 1 .. MaxSize
MaxBlock == 4      \* x_blksiz, y_blksiz in 1 .. MaxBlock

InitTiling ==
  /\ AggIdle
  /\ lk = Idle /\ ar = Idle
  /\ \E xs \in 1..MaxSize, ys \in 1..MaxSize, xb \in 1..MaxBlock,
        yb \in 1..MaxBlock :
       tl = [pc |-> "tile", x_siz |-> xs, y_siz |-> ys, x_blksiz |-> xb,
             y_blksiz |-> yb, x |-> 0, y |-> 0, wins |-> << >>]

\* The body of the inner loop: the window at (x, y).
TileWindow ==
  /\ tl.pc = "tile" /\ tl.y < tl.y_siz /\ tl.x < tl.x_siz
  /\ tl' = [tl EXCEPT
              !.wins = Append(@, [x |-> tl.x, y |-> tl.y,
                                  ncols |-> blklim(tl.x, tl.x_blksiz, tl.x_siz),
                                  nrows |-> blklim(tl.y, tl.y_blksiz, tl.y_siz)]),
              !.x = @ + tl.x_blksiz]
  /\ UNCHANGED << aggVars, lk, ar >>

\* The inner range is exhausted: the outer loop steps.
TileNextRow ==
  /\ tl.pc = "tile" /\ tl.y < tl.y_siz /\ tl.x >= tl.x_siz
  /\ tl' = [tl EXCEPT !.x = 0, !.y = @ + tl.y_blksiz]
  /\ UNCHANGED << aggVars, lk, ar >>

TileDone ==
  /\ tl.pc = "tile" /\ tl.y >= tl.y_siz
  /\ tl' = [tl EXCEPT !.pc = "done"]
  /\ UNCHANGED << aggVars, lk, ar >>

NextTiling == TileWindow \/ TileNextRow \/ TileDone

SpecTiling == InitTiling /\ [][NextTiling]_vars

InWindow(w, x, y) ==
  w.x <= x /\ x < w.x + w.ncols /\ w.y <= y /\ y < w.y + w.nrows

WindowsAt(x, y) == {k \in DOMAIN tl.wins : InWindow(tl.wins[k], x, y)}

\* C10: every window lies in the grid, is at least 1 and at most a block
\* wide and high, has exactly the remaining columns or rows at an edge, and
\* once the loops end every pixel of the grid lies in exactly one window.
C10_TilingCoversOnce ==
  tl.pc \in {"tile", "done"} =>
    /\ \A k \in DOMAIN tl.wins :
         LET w == tl.wins[k] IN
         /\ 1 <= w.ncols /\ w.ncols <= tl.x_blksiz
         /\ 1 <= w.nrows /\ w.nrows <= tl.y_blksiz
         /\ w.x + w.ncols <= tl.x_siz
         /\ w.y + w.nrows <= tl.y_siz
         /\ w.x + tl.x_blksiz >= tl.x_siz => w.ncols = tl.x_siz - w.x
         /\ w.y + tl.y_blksiz >= tl.y_siz => w.nrows = tl.y_siz - w.y
         /\ w.x + tl.x_blksiz < tl.x_siz => w.ncols = tl.x_blksiz
         /\ w.y + tl.y_blksiz < tl.y_siz => w.nrows = tl.y_blksiz
    /\ \A x \in 0..(tl.x_siz - 1), y \in 0..(tl.y_siz - 1) :
         /\ Cardinality(WindowsAt(x, y)) <= 1
         /\ tl.pc = "done" => Cardinality(WindowsAt(x, y)) = 1

\* The loops ended on a grid whose last column and last row of blocks are
\* partial.
C10_Witness ==
  /\ tl.pc = "done"
  /\ tl.x_siz % tl.x_blksiz # 0 /\ tl.y_siz % tl.y_blksiz # 0
  /\ tl.x_siz > tl.x_blksiz /\ tl.y_siz > tl.y_blksiz

\* The windows the aggregator scans are those of the loops.
WindowsAgree ==
  tl.pc = "done" =>
    tl.wins = Windows(tl.x_siz, tl.y_siz, tl.x_blksiz, tl.y_blksiz)

=============================================================================
